---- MODULE Spec2Model ----
(***************************************************************************)
(* State-machine model of the UpdateNotification React component           *)
(* (src/src/components/UpdateNotification.tsx).                            *)
(*                                                                         *)
(* One step of the model is one JavaScript task: the continuation of       *)
(* checkAndDownload after `await invoke(...)` settles, a click handler, or *)
(* a setTimeout callback.  React re-renders synchronously after a click,   *)
(* so the buttons offered to the user are those of the current state.      *)
(* State variables hold the value most recently passed to their setter.    *)
(* Time is counted in units of 100 ms.                                     *)
(***************************************************************************)
EXTENDS Integers, Sequences, FiniteSets

\* ---- bounds of the exploration -------------------------------------------
MaxRetries == 2          \* retry clicks explored
MaxCloseClicks == 2      \* close clicks explored

\* ---- program constants ----------------------------------------------------
EntranceDelay == 1       \* setTimeout(() => setIsVisible(true), 100)
CloseDelay == 4          \* setTimeout(onClose, 400)

\* The native updater returning an update object instead of null.
update_Available == "update"

\* `const update = null; // updater removed by user request`
update == "null"

Versions == {"4.1.0"}
UpdateInfos == [has_update : BOOLEAN, latest_version : Versions]
Messages == {"network error", "timeout"}

UpdateStates == {"checking", "downloading", "ready", "error", "none"}

TimerCallbacks == {"setIsVisible", "onClose"}
TimerKeys == TimerCallbacks \X (0..CloseDelay)

VARIABLES
    updateInfo,        \* useState<UpdateInfo | null>: <<>> is null, <<i>> is i
    isVisible,
    isClosing,
    updateState,
    downloadProgress,
    downloadStarted,   \* useRef(false).current
    pending,           \* invoke("check_for_updates") calls not yet settled
    timers,            \* timers[<<cb, d>>]: pending setTimeout(cb) due in d units
    toasts,            \* showToast calls, in order
    tauri,             \* result of isTauri() in this host
    mounted,           \* the parent still renders the widget
    closeCalls,        \* invocations of the onClose prop
    checkCalls,        \* invocations of invoke("check_for_updates")
    retryClicks,
    closeClicks,
    failedChecks,      \* check calls that threw
    lastStep           \* the task that ran last

vars == <<updateInfo, isVisible, isClosing, updateState, downloadProgress,
          downloadStarted, pending, timers, toasts, tauri, mounted,
          closeCalls, checkCalls, retryClicks, closeClicks, failedChecks,
          lastStep>>

Step(op, arg) == [op |-> op, arg |-> arg]

NotReadyToast == [kind |-> "info", text |-> "update_notification.toast.not_ready", detail |-> ""]
FailedToast(errorMsg) == [kind |-> "error", text |-> "update_notification.toast.failed", detail |-> errorMsg]

NoTimers == [k \in TimerKeys |-> 0]
Schedule(tm, cb, delay) == [tm EXCEPT ![<<cb, delay>>] = @ + 1]
Due(cb) == timers[<<cb, 0>>] > 0
Fire(tm, cb) == [tm EXCEPT ![<<cb, 0>>] = @ - 1]
Pending(cb) == \E d \in 0..CloseDelay : timers[<<cb, d>>] > 0

\* ---- the component ----------------------------------------------------------

\* The parent's reaction to onClose(): it stops rendering the widget.
onClose ==
    /\ closeCalls' = closeCalls + 1
    /\ mounted' = FALSE

\* handleClose without its setTimeout(onClose, 400).
handleClose_NoTimer(tm) ==
    /\ isClosing' = TRUE
    /\ isVisible' = FALSE
    /\ timers' = tm

\* handleClose without its setIsClosing(true).
handleClose_NoClosingFlag(tm) ==
    /\ isVisible' = FALSE
    /\ timers' = Schedule(tm, "onClose", CloseDelay)
    /\ UNCHANGED isClosing

handleClose(tm) ==
    /\ isClosing' = TRUE
    /\ isVisible' = FALSE
    /\ timers' = Schedule(tm, "onClose", CloseDelay)

\* The no-update branch setting the "none" state instead of calling onClose().
NoUpdateBranch_SetsNone ==
    /\ updateState' = "none"
    /\ UNCHANGED <<updateInfo, isVisible, isClosing, downloadProgress,
                   downloadStarted, timers, toasts, closeCalls, mounted>>

\* if (!info.has_update) { onClose(); return; }
NoUpdateBranch ==
    /\ onClose
    /\ UNCHANGED <<updateInfo, isVisible, isClosing, updateState,
                   downloadProgress, downloadStarted, timers, toasts>>

\* setUpdateInfo(info); if (!isTauri()) { console.warn(...); onClose(); return; }
NotTauriBranch(info) ==
    /\ updateInfo' = <<info>>
    /\ onClose
    /\ UNCHANGED <<isVisible, isClosing, updateState, downloadProgress,
                   downloadStarted, timers, toasts>>

\* setUpdateInfo(info); if (downloadStarted.current) return;
LatchedBranch(info) ==
    /\ updateInfo' = <<info>>
    /\ UNCHANGED <<isVisible, isClosing, updateState, downloadProgress,
                   downloadStarted, timers, toasts, closeCalls, mounted>>

\* The download branch without its showToast call.
DownloadBranch_NoToast(info) ==
    /\ updateInfo' = <<info>>
    /\ downloadStarted' = TRUE
    /\ updateState' = "downloading"
    /\ handleClose(Schedule(timers, "setIsVisible", EntranceDelay))
    /\ UNCHANGED <<toasts, downloadProgress, closeCalls, mounted>>

\* steps 3 and 4 of checkAndDownload
DownloadBranch(info) ==
    /\ updateInfo' = <<info>>
    /\ downloadStarted' = TRUE
    /\ IF update = "null"
         THEN /\ updateState' = "downloading"
              /\ toasts' = Append(toasts, NotReadyToast)
              /\ handleClose(Schedule(timers, "setIsVisible", EntranceDelay))
              /\ UNCHANGED downloadProgress
         ELSE /\ updateState' = "ready"
              /\ downloadProgress' = 100
              /\ timers' = Schedule(timers, "setIsVisible", EntranceDelay)
              /\ UNCHANGED <<toasts, isVisible, isClosing>>
    /\ UNCHANGED <<closeCalls, mounted>>

\* The catch branch without its showToast call.
CatchBranch_NoToast(errorMsg) ==
    /\ updateState' = "error"
    /\ UNCHANGED <<toasts, updateInfo, isVisible, isClosing, downloadProgress,
                   downloadStarted, timers, closeCalls, mounted>>

\* The catch branch closing the widget as well.
CatchBranch_Closes(errorMsg) ==
    /\ updateState' = "error"
    /\ toasts' = Append(toasts, FailedToast(errorMsg))
    /\ handleClose(timers)
    /\ UNCHANGED <<updateInfo, downloadProgress, downloadStarted, closeCalls,
                   mounted>>

\* catch (error) { ... setUpdateState("error"); showToast(..., "error"); }
CatchBranch(errorMsg) ==
    /\ updateState' = "error"
    /\ toasts' = Append(toasts, FailedToast(errorMsg))
    /\ UNCHANGED <<updateInfo, isVisible, isClosing, downloadProgress,
                   downloadStarted, timers, closeCalls, mounted>>

\* Which branch of the try block a resolved check takes.
Branch(info) ==
    IF ~info.has_update THEN "no_update"
    ELSE IF ~tauri THEN "not_tauri"
    ELSE IF downloadStarted THEN "latched"
    ELSE "download"

\* checkAndDownload dropping a result that arrives after the widget was closed.
checkAndDownload_DroppedAfterClose(info) ==
    IF ~mounted
      THEN UNCHANGED <<updateInfo, isVisible, isClosing, updateState,
                       downloadProgress, downloadStarted, timers, toasts,
                       closeCalls, mounted>>
    ELSE IF ~info.has_update THEN NoUpdateBranch
    ELSE IF ~tauri THEN NotTauriBranch(info)
    ELSE IF downloadStarted THEN LatchedBranch(info)
    ELSE DownloadBranch(info)

\* checkAndDownload without the isTauri() guard.
checkAndDownload_NoTauriCheck(info) ==
    IF ~info.has_update THEN NoUpdateBranch
    ELSE IF downloadStarted THEN LatchedBranch(info)
    ELSE DownloadBranch(info)

\* checkAndDownload, after `await invoke("check_for_updates")` resolved
checkAndDownload(info) ==
    IF ~info.has_update THEN NoUpdateBranch
    ELSE IF ~tauri THEN NotTauriBranch(info)
    ELSE IF downloadStarted THEN LatchedBranch(info)
    ELSE DownloadBranch(info)

\* ---- actions ----------------------------------------------------------------

CheckResolves(info) ==
    /\ pending > 0
    /\ pending' = pending - 1
    /\ checkAndDownload(info)
    /\ lastStep' = Step("check", Branch(info))
    /\ UNCHANGED <<tauri, checkCalls, retryClicks, closeClicks, failedChecks>>

CheckRejects(errorMsg) ==
    /\ pending > 0
    /\ pending' = pending - 1
    /\ CatchBranch(errorMsg)
    /\ failedChecks' = failedChecks + 1
    /\ lastStep' = Step("check_error", errorMsg)
    /\ UNCHANGED <<tauri, checkCalls, retryClicks, closeClicks>>

\* The retry button rendered while a check is still awaited, too.
RetryEnabled_WhileChecking == mounted /\ updateState \in {"error", "checking"}

\* The retry button rendered in the downloading state, too.
RetryEnabled_WhileDownloading == mounted /\ updateState \in {"error", "downloading"}

\* The retry button is rendered when updateState === "error".
RetryEnabled == mounted /\ updateState = "error"

\* The retry handler without setUpdateState("checking").
RetryClick_KeepsState ==
    /\ RetryEnabled
    /\ retryClicks < MaxRetries
    /\ downloadStarted' = FALSE
    /\ downloadProgress' = 0
    /\ pending' = pending + 1
    /\ checkCalls' = checkCalls + 1
    /\ retryClicks' = retryClicks + 1
    /\ lastStep' = Step("retry", "")
    /\ UNCHANGED <<updateState, updateInfo, isVisible, isClosing, timers,
                   toasts, tauri, mounted, closeCalls, closeClicks,
                   failedChecks>>

\* The retry handler without its call of checkAndDownload().
RetryClick_NoCheck ==
    /\ RetryEnabled
    /\ retryClicks < MaxRetries
    /\ downloadStarted' = FALSE
    /\ updateState' = "checking"
    /\ downloadProgress' = 0
    /\ retryClicks' = retryClicks + 1
    /\ lastStep' = Step("retry", "")
    /\ UNCHANGED <<pending, checkCalls, updateInfo, isVisible, isClosing,
                   timers, toasts, tauri, mounted, closeCalls, closeClicks,
                   failedChecks>>

RetryClick ==
    /\ RetryEnabled
    /\ retryClicks < MaxRetries
    /\ downloadStarted' = FALSE
    /\ updateState' = "checking"
    /\ downloadProgress' = 0
    /\ pending' = pending + 1
    /\ checkCalls' = checkCalls + 1
    /\ retryClicks' = retryClicks + 1
    /\ lastStep' = Step("retry", "")
    /\ UNCHANGED <<updateInfo, isVisible, isClosing, timers, toasts, tauri,
                   mounted, closeCalls, closeClicks, failedChecks>>

\* The close buttons are rendered when updateState is "error" or "ready".
CloseEnabled == mounted /\ updateState \in {"error", "ready"}

CloseClick ==
    /\ CloseEnabled
    /\ closeClicks < MaxCloseClicks
    /\ handleClose(timers)
    /\ closeClicks' = closeClicks + 1
    /\ lastStep' = Step("close", "")
    /\ UNCHANGED <<updateInfo, updateState, downloadProgress, downloadStarted,
                   pending, toasts, tauri, mounted, closeCalls, checkCalls,
                   retryClicks, failedChecks>>

\* The restart button is rendered when updateState === "ready"; handleRestart
\* only calls tauriRelaunch() and changes nothing of the component.
RestartEnabled == mounted /\ updateState = "ready"

\* () => setIsVisible(true)
EntranceTimer ==
    /\ Due("setIsVisible")
    /\ timers' = Fire(timers, "setIsVisible")
    /\ isVisible' = TRUE
    /\ lastStep' = Step("timer", "setIsVisible")
    /\ UNCHANGED <<updateInfo, isClosing, updateState, downloadProgress,
                   downloadStarted, pending, toasts, tauri, mounted,
                   closeCalls, checkCalls, retryClicks, closeClicks,
                   failedChecks>>

\* setTimeout(onClose, 400) expires
CloseTimer ==
    /\ Due("onClose")
    /\ timers' = Fire(timers, "onClose")
    /\ onClose
    /\ lastStep' = Step("timer", "onClose")
    /\ UNCHANGED <<updateInfo, isVisible, isClosing, updateState,
                   downloadProgress, downloadStarted, pending, toasts, tauri,
                   checkCalls, retryClicks, closeClicks, failedChecks>>

\* 100 ms pass: possible once every expired timer has run.
Tick ==
    /\ \A cb \in TimerCallbacks : ~Due(cb)
    /\ \E cb \in TimerCallbacks : Pending(cb)
    /\ timers' = [k \in TimerKeys |->
                    IF k[2] = CloseDelay THEN 0 ELSE timers[<<k[1], k[2] + 1>>]]
    /\ lastStep' = Step("tick", "")
    /\ UNCHANGED <<updateInfo, isVisible, isClosing, updateState,
                   downloadProgress, downloadStarted, pending, toasts, tauri,
                   mounted, closeCalls, checkCalls, retryClicks, closeClicks,
                   failedChecks>>

\* State after the first render and the mount effect (checkAndDownload called
\* once, suspended at the await).
Init ==
    /\ updateInfo = <<>>
    /\ isVisible = FALSE
    /\ isClosing = FALSE
    /\ updateState = "checking"
    /\ downloadProgress = 0
    /\ downloadStarted = FALSE
    /\ pending = 1
    /\ timers = NoTimers
    /\ toasts = <<>>
    /\ tauri \in BOOLEAN
    /\ mounted = TRUE
    /\ closeCalls = 0
    /\ checkCalls = 1
    /\ retryClicks = 0
    /\ closeClicks = 0
    /\ failedChecks = 0
    /\ lastStep = Step("mount", "")

CheckSettles ==
    \/ \E info \in UpdateInfos : CheckResolves(info)
    \/ \E errorMsg \in Messages : CheckRejects(errorMsg)

Next ==
    \/ \E info \in UpdateInfos : CheckResolves(info)
    \/ \E errorMsg \in Messages : CheckRejects(errorMsg)
    \/ RetryClick
    \/ CloseClick
    \/ EntranceTimer
    \/ CloseTimer
    \/ Tick

Spec == Init /\ [][Next]_vars

\* Every check call settles and every scheduled timer fires; the user is
\* never obliged to click.
FairSpec ==
    /\ Spec
    /\ WF_vars(CheckSettles)
    /\ WF_vars(Tick)
    /\ WF_vars(EntranceTimer)
    /\ WF_vars(CloseTimer)

TypeOK ==
    /\ Len(updateInfo) <= 1
    /\ isVisible \in BOOLEAN /\ isClosing \in BOOLEAN
    /\ updateState \in UpdateStates
    /\ downloadProgress \in 0..100
    /\ downloadStarted \in BOOLEAN
    /\ pending \in Nat
    /\ mounted \in BOOLEAN

\* ---- helpers of the properties --------------------------------------------------

MaxCloseCalls == 1 + MaxRetries + MaxCloseClicks

Count(ts, kind) == Cardinality({i \in 1..Len(ts) : ts[i].kind = kind})

Resolved(branch) == lastStep' = Step("check", branch)

Rejected == lastStep'.op = "check_error"

\* ---- C1 -----------------------------------------------------------------------
\* C1: within one mount the parent's onClose callback is invoked at most once,
\* whatever the interleaving of check outcomes, timer expiries and clicks.
C1_OnCloseAtMostOnce == closeCalls <= 1

\* ---- C2 -----------------------------------------------------------------------
\* C2 as stated: every execution eventually invokes onClose, given only that
\* checks settle and timers fire.
C2_EventuallyOnClose == <>(closeCalls > 0)

\* C2 as amended: every such execution eventually invokes onClose or reaches
\* the error state, where the widget waits for the user's retry or close.
C2_EventuallyOnCloseOrError == <>(closeCalls > 0 \/ updateState = "error")

C2_Witness ==
    /\ closeCalls = 1
    /\ closeClicks = 0 /\ retryClicks = 0
    /\ lastStep = Step("timer", "onClose")

\* ---- C3 -----------------------------------------------------------------------
\* C3: a check that returns has_update = false invokes onClose in that step,
\* does not make updateState downloading, schedules no timer and does not set
\* isVisible.
C3_NoUpdateClosesSilently ==
    [][Resolved("no_update") =>
          /\ closeCalls' = closeCalls + 1
          /\ updateState' # "downloading"
          /\ timers' = timers
          /\ (isVisible' => isVisible)]_vars

C3_Witness ==
    /\ lastStep = Step("check", "no_update")
    /\ closeCalls = 1
    /\ ~isVisible
    /\ timers = NoTimers

\* ---- C4 -----------------------------------------------------------------------
\* C4: a check that returns has_update = true while isTauri() is false invokes
\* onClose; updateState never is downloading, the latch stays unset and no
\* toast is shown by it.
C4_NotTauriCloses ==
    /\ [](~tauri => /\ updateState # "downloading"
                    /\ ~downloadStarted
                    /\ Count(toasts, "info") = 0)
    /\ [][Resolved("not_tauri") =>
             /\ closeCalls' = closeCalls + 1
             /\ updateState' # "downloading"
             /\ ~downloadStarted'
             /\ toasts' = toasts]_vars

C4_Witness ==
    /\ lastStep = Step("check", "not_tauri")
    /\ ~tauri
    /\ closeCalls = 1
    /\ Len(updateInfo) = 1

\* ---- C5 -----------------------------------------------------------------------
\* C5: a check that returns has_update = true in a native host with the latch
\* unset makes updateState downloading, shows exactly one "not ready" toast and
\* starts the close sequence; onClose is invoked, once, when the closing delay
\* has elapsed.
C5_NativeUpdateToastsAndCloses ==
    /\ [][/\ Resolved("download") =>
                /\ tauri /\ ~downloadStarted
                /\ updateState' = "downloading"
                /\ toasts' = Append(toasts, NotReadyToast)
                /\ isClosing' /\ ~isVisible'
                /\ timers'[<<"onClose", CloseDelay>>] = timers[<<"onClose", CloseDelay>>] + 1
                /\ closeCalls' = closeCalls
          /\ lastStep' = Step("timer", "onClose") =>
                /\ Due("onClose")
                /\ closeCalls' = closeCalls + 1]_vars
    /\ \A n \in 0..MaxCloseCalls :
          (lastStep = Step("check", "download") /\ closeCalls = n) ~> (closeCalls = n + 1)

C5_Witness ==
    /\ lastStep = Step("timer", "onClose")
    /\ updateState = "downloading"
    /\ closeCalls = 1
    /\ Count(toasts, "info") = 1

\* ---- C6 -----------------------------------------------------------------------
\* C6 as stated: on the native update path the entrance timer's
\* setIsVisible(true) precedes handleClose, so once the close sequence has
\* started there the entrance delay has already elapsed.
C6_EntranceBeforeClose ==
    (updateState = "downloading" /\ isClosing) => ~Pending("setIsVisible")

\* C6 as amended: on the native update path updateState becomes downloading and
\* the close sequence starts (closing flag set, visibility cleared) in the same
\* step, before the entrance delay elapses; the entrance timer's
\* setIsVisible(true) follows handleClose.
C6_CloseBeforeEntrance ==
    [][/\ Resolved("download") =>
             /\ updateState' = "downloading"
             /\ isClosing' /\ ~isVisible'
             /\ timers'[<<"setIsVisible", EntranceDelay>>] > 0
       /\ lastStep' = Step("timer", "setIsVisible") =>
             /\ isClosing
             /\ updateState = "downloading"
             /\ isVisible']_vars

C6_Witness ==
    /\ lastStep = Step("timer", "setIsVisible")
    /\ updateState = "downloading"
    /\ isClosing /\ isVisible

\* ---- C7 -----------------------------------------------------------------------
\* C7: a check that throws with message M sets updateState to error and shows
\* exactly one error toast containing M; nothing else sets error or shows an
\* error toast, so error toasts and failed checks are equal in number.
C7_ErrorOnlyFromFailedCheck ==
    /\ [](Count(toasts, "error") = failedChecks)
    /\ [][/\ Rejected =>
                /\ updateState' = "error"
                /\ toasts' = Append(toasts, FailedToast(lastStep'.arg))
          /\ (updateState' = "error" /\ updateState # "error") => Rejected
          /\ Count(toasts', "error") # Count(toasts, "error") => Rejected]_vars

C7_Witness ==
    /\ lastStep.op = "check_error"
    /\ failedChecks = 2
    /\ Count(toasts, "error") = 2
    /\ updateState = "error"

\* ---- C8 -----------------------------------------------------------------------
\* C8: retry is enabled only in the error state; it clears the latch, sets
\* updateState to checking and downloadProgress to 0 and starts exactly one
\* check, which is handled as the mount-time check is (latch unset, state
\* checking, progress 0 while it is in flight).
C8_RetryRestarts ==
    /\ [](RetryEnabled => updateState = "error")
    /\ [](pending > 0 => /\ ~downloadStarted
                         /\ updateState = "checking"
                         /\ downloadProgress = 0)
    /\ [][lastStep' = Step("retry", "") =>
             /\ updateState = "error"
             /\ ~downloadStarted'
             /\ updateState' = "checking"
             /\ downloadProgress' = 0
             /\ pending' = pending + 1
             /\ checkCalls' = checkCalls + 1]_vars

C8_Witness ==
    /\ retryClicks = 1
    /\ pending = 0
    /\ lastStep.op \in {"check", "check_error"}

\* ---- C9 -----------------------------------------------------------------------
\* C9: a close click sets isClosing and clears isVisible in that step, and
\* onClose is not invoked while a timer started by a close click has not yet
\* expired.  (With the latch unset every pending onClose timer comes from a
\* click: the only other caller of handleClose sets the latch.)
C9_OnCloseOnlyAfterCloseDelay ==
    [][/\ lastStep' = Step("close", "") =>
             /\ updateState \in {"error", "ready"}
             /\ isClosing' /\ ~isVisible'
       /\ (~downloadStarted /\ \E d \in 1..CloseDelay : timers[<<"onClose", d>>] > 0)
             => closeCalls' = closeCalls]_vars

\* ---- C10 ----------------------------------------------------------------------
\* C10: check_for_updates is invoked once on mount and then only by a retry
\* click: the number of invocations is 1 plus the number of retries.
C10_ChecksEqualOnePlusRetries ==
    /\ [](checkCalls = 1 + retryClicks)
    /\ [][checkCalls' # checkCalls => lastStep' = Step("retry", "")]_vars

C10_Witness ==
    /\ retryClicks = 2
    /\ checkCalls = 3

\* ---- C11 ----------------------------------------------------------------------
\* C11 as stated: an execution reaches two check_for_updates calls outstanding
\* at once (a retry started while an earlier check is in flight).  Taken over
\* the executions in which every check settles and every timer fires.
C11_OverlapHappens == <>(pending >= 2)

\* C11 as amended: overlapping check calls are not possible; retry is offered
\* only when no check is in flight, so at most one check is outstanding.
C11_NoOverlappingChecks ==
    /\ pending <= 1
    /\ RetryEnabled => pending = 0

C11_Witness ==
    /\ retryClicks >= 1
    /\ pending = 1
    /\ lastStep = Step("retry", "")

\* ---- C12 ----------------------------------------------------------------------
\* C12: within one mount the download step is initiated at most once:
\* updateState is set to downloading at most one time and at most one
\* "not ready" toast is shown, however many retries clear the latch.
C12_DownloadAtMostOnce ==
    /\ [](Count(toasts, "info") <= 1)
    /\ [][/\ Resolved("download") =>
                /\ Count(toasts, "info") = 0
                /\ updateState # "downloading"
          /\ updateState = "downloading" => updateState' = "downloading"
          /\ (updateState' = "downloading" /\ updateState # "downloading")
                => Resolved("download")]_vars

C12_Witness ==
    /\ retryClicks >= 1
    /\ updateState = "downloading"
    /\ downloadStarted
    /\ Count(toasts, "info") = 1

\* ---- C13 ----------------------------------------------------------------------
\* C13 as stated: when a check reports no update, or an update that cannot be
\* downloaded (non-native host or stubbed updater), updateState becomes none,
\* and none is never left.
C13_BecomesNone ==
    [][/\ (Resolved("no_update") \/ Resolved("not_tauri") \/ Resolved("download"))
             => updateState' = "none"
       /\ updateState = "none" => updateState' = "none"]_vars

\* C13 as amended: in those cases updateState never becomes none; the widget
\* is closed through onClose instead: at once, with updateState unchanged,
\* when there is no update or the host is not native, and through the close
\* timer, with updateState downloading, when the updater is stubbed.
C13_ClosedWithoutNone ==
    /\ [](updateState # "none")
    /\ [][/\ (Resolved("no_update") \/ Resolved("not_tauri")) =>
                /\ updateState' = updateState
                /\ closeCalls' = closeCalls + 1
          /\ Resolved("download") =>
                /\ updateState' = "downloading"
                /\ Pending("onClose")']_vars

C13_Witness ==
    /\ lastStep \in {Step("check", "no_update"), Step("check", "not_tauri")}
    /\ updateState = "checking"
    /\ closeCalls = 1

\* ---- C14 ----------------------------------------------------------------------
\* C14: a check still in flight after onClose has been invoked is not
\* cancelled; when it settles, the usual handling runs: state updates, toasts,
\* a further onClose or a newly scheduled close timer.
C14_LateCheckStillHandled ==
    /\ [](pending > 0 =>
             /\ \A info \in UpdateInfos : ENABLED CheckResolves(info)
             /\ \A errorMsg \in Messages : ENABLED CheckRejects(errorMsg))
    /\ [][closeCalls > 0 =>
             /\ (Resolved("no_update") \/ Resolved("not_tauri"))
                   => closeCalls' = closeCalls + 1
             /\ Resolved("download") =>
                   /\ updateState' = "downloading"
                   /\ toasts' = Append(toasts, NotReadyToast)
                   /\ timers'[<<"onClose", CloseDelay>>] > 0
             /\ Rejected =>
                   /\ updateState' = "error"
                   /\ Len(toasts') = Len(toasts) + 1]_vars

C14_Witness ==
    /\ lastStep = Step("check", "no_update")
    /\ closeCalls = 2
    /\ closeClicks = 1
    /\ ~Pending("onClose")

\* ---- C15 ----------------------------------------------------------------------
\* C15: the widget is never displayed: isVisible and not isClosing never holds,
\* because isClosing is never reset and isVisible is set to true only by the
\* entrance timer, which fires only after handleClose has set isClosing.
C15_NeverDisplayed ==
    /\ [](~(isVisible /\ ~isClosing))
    /\ [][/\ isClosing => isClosing'
          /\ (isVisible' /\ ~isVisible) =>
                /\ lastStep' = Step("timer", "setIsVisible")
                /\ isClosing]_vars

C15_Witness ==
    /\ isVisible
    /\ isClosing
    /\ mounted
    /\ Pending("onClose")

\* ---- C16 ----------------------------------------------------------------------
\* C16: updateState is always checking, downloading or error; ready is
\* unreachable, so the restart button is never offered and downloadProgress
\* is always 0.
C16_ReadyUnreachable ==
    /\ updateState \in {"checking", "downloading", "error"}
    /\ ~RestartEnabled
    /\ downloadProgress = 0

C16_Witness ==
    /\ lastStep = Step("check", "download")
    /\ downloadStarted
    /\ updateState = "downloading"
    /\ downloadProgress = 0

\* ---- C17 ----------------------------------------------------------------------
\* C17: a failed check changes only updateState (to error) and emits one
\* toast: isVisible, isClosing, downloadProgress, the latch and updateInfo are
\* unchanged, no timer is scheduled and onClose is not invoked.
C17_FailureFrame ==
    [][Rejected =>
          /\ updateState' = "error"
          /\ Len(toasts') = Len(toasts) + 1
          /\ UNCHANGED <<isVisible, isClosing, downloadProgress,
                         downloadStarted, updateInfo, timers, closeCalls>>]_vars

C17_Witness ==
    /\ lastStep.op = "check_error"
    /\ isClosing
    /\ Pending("onClose")
    /\ closeCalls = 0

====
